---------------------------- MODULE Spec2Model ----------------------------
(***************************************************************************)
(* Observer / Observable of src/index.ts.                                  *)
(*                                                                         *)
(* The program is single-threaded and synchronous: a call made from        *)
(* outside the two classes (subscribe, the handle's unsubscribe, a call a  *)
(* producer makes on an Observer it kept) runs to its end before the next  *)
(* one starts.  An action is therefore one such call, with every call it   *)
(* makes in turn.  Consumer callbacks (the handlers, the cleanup callback  *)
(* of a hand-written subscriber function) may call back into the Observer  *)
(* before they return; what they call is an input of the action (its       *)
(* plan), and the nested call is executed where the callback runs.         *)
(*                                                                         *)
(* trace[o] is the log of Observer o: every callback invocation, every     *)
(* execution of Observer.unsubscribe, and the point where subscribe stores *)
(* the cleanup callback, in the order they happen.                         *)
(***************************************************************************)
EXTENDS Integers, Sequences, FiniteSets

\* ------------------------------------------------------------- bounds
MaxSubs == 2      \* subscribe() calls made on the Observable
MaxLen == 2       \* length of the source sequence / of a subscriber's body
MaxEnv == 2       \* calls made on a subscription after subscribe() returned

Values == {1, 2}
ErrorCodes == {500}
HandlerNames == {"next", "error", "complete"}
CallbackNames == HandlerNames \cup {"cleanup"}
Subs == 1..MaxSubs

VARIABLES
    source,             \* the Observable: its subscribeHolder
    nObs,               \* Observers constructed so far
    handlers,           \* Observer.handlers: the handlers that are present
    isUnsubscribed,     \* Observer.isUnsubscribed
    unsubscribeHolder,  \* Observer.unsubscribeHolder is defined
    trace,              \* the log of each Observer
    envCalls,           \* calls made so far on subscriptions from outside
    handleCalls         \* of these, the unsubscribe() calls made on each handle

vars == <<source, nObs, handlers, isUnsubscribed, unsubscribeHolder, trace,
          envCalls, handleCalls>>

\* ------------------------------------------------------------- helpers
SeqsUpTo(S, n) == UNION {[1..k -> S] : k \in 0..n}

Event(k, v) == [k |-> k, v |-> v]

RECURSIVE Filter(_, _)
Filter(s, K) ==
    IF s = <<>> THEN <<>>
    ELSE IF Head(s).k \in K THEN <<Head(s)>> \o Filter(Tail(s), K)
    ELSE Filter(Tail(s), K)

Count(s, k) == Len(Filter(s, {k}))
HandlerEvents(s) == Filter(s, HandlerNames)

\* ------------------------------------------------------------- inputs
\* A call on an Observer.  The values of from() tell the order of delivery;
\* a hand-written producer pushes one value, as often as it likes.
Calls ==
    {[op |-> "next", arg |-> v] : v \in {1}}
    \cup {[op |-> "error", arg |-> e] : e \in ErrorCodes}
    \cup {[op |-> "complete", arg |-> 0], [op |-> "unsubscribe", arg |-> 0]}

\* What consumer callbacks do during one outside call: after letting
\* Head(plan).skip callbacks of kind Head(plan).at pass, the next one calls
\* Head(plan).call on its Observer before it returns, and the callbacks that
\* run inside that call follow Tail(plan).  One callback calls back per
\* outside call; only the next handler can run more than once in one call
\* (n times at most).
Reactions(ats, n) ==
    {r \in [at : ats, skip : 0..(n - 1), call : Calls] : r.at # "next" => r.skip = 0}
Plans(ats, n) == {<<>>} \cup {<<r>> : r \in Reactions(ats, n)}

\* from(values), or a hand-written subscriber function: the calls it makes
\* on its Observer, in order, before it returns its cleanup callback.
Sources ==
    {[kind |-> "from", values |-> vs, script |-> <<>>] : vs \in SeqsUpTo(Values, MaxLen)}
    \cup {[kind |-> "custom", values |-> <<>>, script |-> sc] : sc \in SeqsUpTo(Calls, MaxLen)}

\* ------------------------------------------------------------- Observer
\* An Observer while a call runs on it: its fields, its log, and what is
\* left of the plan.
NewObserver(h, plan) ==
    [h |-> h, u |-> FALSE, hld |-> FALSE, tr |-> <<>>, plan |-> plan]

RECURSIVE Dispatch(_, _)

\* A consumer callback runs: it is logged, then makes its nested call if any
\* (logged as "reenter", followed by what the nested call does).
Invoke(st, kind, arg) ==
    LET st1 == [st EXCEPT !.tr = Append(@, Event(kind, arg))]
    IN  IF st1.plan # <<>> /\ Head(st1.plan).at = kind
        THEN IF Head(st1.plan).skip = 0
             THEN Dispatch([st1 EXCEPT !.plan = Tail(@),
                                       !.tr = Append(@, Event("reenter", 0))],
                           Head(st1.plan).call)
             ELSE [st1 EXCEPT !.plan[1].skip = @ - 1]
        ELSE st1

\* (mutant) the unsubscribed flag is not looked at before a value is delivered
NextGuardNoFlag(st) == "next" \in st.h

NextGuard(st) == "next" \in st.h /\ ~st.u

ObserverNext(st, value) ==
    IF NextGuard(st) THEN Invoke(st, "next", value) ELSE st

\* (mutant) the stored cleanup callback is single-use
CleanupOnce(st) == st.hld /\ Count(st.tr, "cleanup") = 0

CleanupGuard(st) == st.hld

\* (mutant) unsubscribe() runs the cleanup callback before it sets the flag
UnsubscribeCleanupFirst(st) ==
    LET st1 == IF CleanupGuard(st) THEN Invoke(st, "cleanup", 0) ELSE st
    IN  [st1 EXCEPT !.u = TRUE, !.tr = Append(@, Event("unsub", 0))]

\* (mutant) unsubscribe() flips the flag instead of setting it
UnsubscribeToggles(st) ==
    LET st1 == [st EXCEPT !.u = ~st.u, !.tr = Append(@, Event("unsub", 0))]
    IN  IF CleanupGuard(st1) THEN Invoke(st1, "cleanup", 0) ELSE st1

ObserverUnsubscribe(st) ==
    LET st1 == [st EXCEPT !.u = TRUE, !.tr = Append(@, Event("unsub", 0))]
    IN  IF CleanupGuard(st1) THEN Invoke(st1, "cleanup", 0) ELSE st1

\* (mutant) error() and complete() signal whatever the flag says
TerminalGuardAlways(st) == TRUE

TerminalGuard(st) == ~st.u

\* (mutant) the handler is called without checking that it is present
HandlerAssumed(st, h) == TRUE

HasHandler(st, h) == h \in st.h

\* (mutant) error() tears down first and signals the handler afterwards
ErrorUnsubscribesFirst(st, error) ==
    IF TerminalGuard(st)
    THEN LET st1 == ObserverUnsubscribe(st)
         IN  IF HasHandler(st1, "error") THEN Invoke(st1, "error", error) ELSE st1
    ELSE st

ObserverError(st, error) ==
    IF TerminalGuard(st)
    THEN ObserverUnsubscribe(IF HasHandler(st, "error")
                             THEN Invoke(st, "error", error) ELSE st)
    ELSE st

ObserverComplete(st) ==
    IF TerminalGuard(st)
    THEN ObserverUnsubscribe(IF HasHandler(st, "complete")
                             THEN Invoke(st, "complete", 0) ELSE st)
    ELSE st

Dispatch(st, c) ==
    CASE c.op = "next" -> ObserverNext(st, c.arg)
      [] c.op = "error" -> ObserverError(st, c.arg)
      [] c.op = "complete" -> ObserverComplete(st)
      [] c.op = "unsubscribe" -> ObserverUnsubscribe(st)

\* ------------------------------------------------------------- Observable
\* (mutant) the values are pushed last to first
RECURSIVE ForEachReversed(_, _)
ForEachReversed(st, values) ==
    IF values = <<>> THEN st
    ELSE ObserverNext(ForEachReversed(st, Tail(values)), Head(values))

RECURSIVE ForEach(_, _)
ForEach(st, values) ==
    IF values = <<>> THEN st
    ELSE ForEach(ObserverNext(st, Head(values)), Tail(values))

\* (mutant) from() pushes the values and does not complete
FromWithoutComplete(st, values) == ForEach(st, values)

\* The subscriber function that from(values) builds
FromSubscriber(st, values) == ObserverComplete(ForEach(st, values))

RECURSIVE RunScript(_, _)
RunScript(st, script) ==
    IF script = <<>> THEN st
    ELSE RunScript(Dispatch(st, Head(script)), Tail(script))

SubscribeHolder(st) ==
    IF source.kind = "from" THEN FromSubscriber(st, source.values)
    ELSE RunScript(st, source.script)

\* (mutant) subscribe() stores the cleanup callback before the subscriber
\* function has run
SubscribeStoresFirst(h, plan) ==
    LET st == SubscribeHolder([NewObserver(h, plan) EXCEPT !.hld = TRUE])
    IN  [st EXCEPT !.tr = Append(@, Event("attached", 0))]

\* Observable.subscribe, up to the return of the handle
ObservableSubscribe(h, plan) ==
    LET st == SubscribeHolder(NewObserver(h, plan))
    IN  [st EXCEPT !.hld = TRUE, !.tr = Append(@, Event("attached", 0))]

\* ------------------------------------------------------------- state machine
Load(o, plan) ==
    [h |-> handlers[o], u |-> isUnsubscribed[o], hld |-> unsubscribeHolder[o],
     tr |-> trace[o], plan |-> plan]

Store(o, st) ==
    /\ handlers' = [handlers EXCEPT ![o] = st.h]
    /\ isUnsubscribed' = [isUnsubscribed EXCEPT ![o] = st.u]
    /\ unsubscribeHolder' = [unsubscribeHolder EXCEPT ![o] = st.hld]
    /\ trace' = [trace EXCEPT ![o] = st.tr]

\* A hand-written subscriber function is subscribed once; from() up to
\* MaxSubs times.
SubsOf(src) == IF src.kind = "from" THEN MaxSubs ELSE 1

\* The callbacks a call on Observer o can run directly: the handler it
\* signals, if present, and the cleanup callback, if stored.
CallbacksOf(o, op) ==
    (handlers[o] \cap {op})
    \cup (IF op # "next" /\ unsubscribeHolder[o] THEN {"cleanup"} ELSE {})

\* The plans of a call that can run the callbacks ats, the next handler n
\* times at most.  The Observer that from() receives is reachable by no
\* consumer code, and the cleanup callback from() returns only logs: nothing
\* re-enters it.  (A handler of one from() subscription may still call the
\* handle of another; an Observer method touches the fields of its own
\* Observer only, so that call is the HandleUnsubscribe step of the other
\* subscription.)
PlansOf(ats, n) == IF source.kind = "from" THEN {<<>>} ELSE Plans(ats, n)

\* (mutant) every handle acts on the Observer created last
LastObserver(o) == nObs

\* The Observer the handle returned by subscribe closes over
HandleObserver(o) == o

Init ==
    /\ source \in Sources
    /\ nObs = 0
    /\ handlers = [o \in Subs |-> {}]
    /\ isUnsubscribed = [o \in Subs |-> FALSE]
    /\ unsubscribeHolder = [o \in Subs |-> FALSE]
    /\ trace = [o \in Subs |-> <<>>]
    /\ envCalls = 0
    /\ handleCalls = [o \in Subs |-> 0]

\* observable.subscribe(obs)
Subscribe(h, plan) ==
    /\ nObs < SubsOf(source)
    /\ nObs' = nObs + 1
    /\ Store(nObs + 1, ObservableSubscribe(h, plan))
    /\ UNCHANGED <<source, envCalls, handleCalls>>

\* subscription.unsubscribe()
HandleUnsubscribe(o, plan) ==
    /\ o \in 1..nObs
    /\ envCalls < MaxEnv
    /\ envCalls' = envCalls + 1
    /\ handleCalls' = [handleCalls EXCEPT ![o] = @ + 1]
    /\ Store(HandleObserver(o), ObserverUnsubscribe(Load(HandleObserver(o), plan)))
    /\ UNCHANGED <<source, nObs>>

\* A producer signals an Observer its subscriber function kept, after
\* subscribe() returned.
ProducerCall(o, c, plan) ==
    /\ source.kind = "custom"
    /\ c.op # "unsubscribe"
    /\ o \in 1..nObs
    /\ envCalls < MaxEnv
    /\ envCalls' = envCalls + 1
    /\ Store(o, Dispatch(Load(o, plan), c))
    /\ UNCHANGED <<source, nObs, handleCalls>>

Next ==
    \/ \E h \in SUBSET HandlerNames : \E plan \in PlansOf(h, MaxLen) : Subscribe(h, plan)
    \/ \E o \in Subs : \E plan \in PlansOf(CallbacksOf(o, "unsubscribe"), 1) :
          HandleUnsubscribe(o, plan)
    \/ \E o \in Subs, c \in Calls : \E plan \in PlansOf(CallbacksOf(o, c.op), 1) :
          ProducerCall(o, c, plan)

Spec == Init /\ [][Next]_vars

TypeOK ==
    /\ source \in Sources
    /\ nObs \in 0..MaxSubs
    /\ handlers \in [Subs -> SUBSET HandlerNames]
    /\ isUnsubscribed \in [Subs -> BOOLEAN]
    /\ unsubscribeHolder \in [Subs -> BOOLEAN]
    /\ envCalls \in 0..MaxEnv
    /\ handleCalls \in [Subs -> 0..MaxEnv]

\* ------------------------------------------------------------- reading the log
Created == 1..nObs

\* The log up to, and from, the point where subscribe stored the cleanup
\* callback and returned.
AttachAt(tr) == CHOOSE i \in 1..Len(tr) : tr[i].k = "attached"
BeforeAttach(tr) == SubSeq(tr, 1, AttachAt(tr) - 1)
AfterAttach(tr) == SubSeq(tr, AttachAt(tr) + 1, Len(tr))

Cleanups(o) == Count(trace[o], "cleanup")

\* What from(values) is to deliver to an Observer with handlers h
Expected(h, values) ==
    (IF "next" \in h THEN [i \in 1..Len(values) |-> Event("next", values[i])] ELSE <<>>)
    \o (IF "complete" \in h THEN <<Event("complete", 0)>> ELSE <<>>)

\* ------------------------------------------------------------- claims

\* C1 (P1, idempotent unsubscribe): the cleanup callback of an Observer is
\* never invoked more than once, and once unsubscribe() has run with the
\* callback stored it has been invoked exactly once.  Stated for the plain
\* case, where no callback calls back into the Observer.
C1_IdempotentUnsubscribe ==
    \A o \in Created :
        Count(trace[o], "reenter") = 0 =>
            /\ Cleanups(o) <= 1
            /\ Count(AfterAttach(trace[o]), "unsub") >= 1 => Cleanups(o) = 1

\* C2 (P2, terminal exclusivity): once unsubscribe() has run on an Observer
\* (called directly, or by error() or complete()), no later call invokes a
\* next, error or complete handler: in the log of every Observer no handler
\* invocation follows an execution of unsubscribe().
C2_TerminalExclusivity ==
    \A o \in Created : \A i, j \in 1..Len(trace[o]) :
        (i < j /\ trace[o][i].k = "unsub") => trace[o][j].k \notin HandlerNames

\* A subscriber function that completes and then pushes a value: the complete
\* handler ran, the next handler did not.
C2_Witness ==
    /\ source.kind = "custom"
    /\ source.script = <<[op |-> "complete", arg |-> 0], [op |-> "next", arg |-> 1]>>
    /\ nObs = 1
    /\ handlers[1] = HandlerNames
    /\ HandlerEvents(trace[1]) = <<Event("complete", 0)>>

\* C3 (P3, order preservation): one subscribe to from(values) invokes the next
\* handler with the values in source order, then the complete handler once as
\* the last signal, and never the error handler (a handler that is absent is
\* skipped).
C3_OrderPreservation ==
    source.kind = "from" =>
        \A o \in Created : HandlerEvents(trace[o]) = Expected(handlers[o], source.values)

C3_Witness ==
    /\ source.kind = "from"
    /\ source.values = <<1, 2>>
    /\ nObs >= 1
    /\ handlers[1] = HandlerNames
    /\ HandlerEvents(trace[1]) = <<Event("next", 1), Event("next", 2), Event("complete", 0)>>

\* C4: every subscription whose Observer is Unsubscribed has had its cleanup
\* callback invoked exactly once, whichever path terminated it.
C4_CleanupOnTermination ==
    \A o \in Created : isUnsubscribed[o] => Cleanups(o) = 1

\* C5 (Scenario C): for from(values), the cleanup callback has run once when
\* subscribe returns, and a following unsubscribe() on the handle does not run
\* it again.
C5_ScenarioC ==
    source.kind = "from" =>
        \A o \in Created :
            /\ Count(BeforeAttach(trace[o]), "cleanup") = 1
            /\ handleCalls[o] <= 1 => Count(AfterAttach(trace[o]), "cleanup") = 0

\* Scenario B: the subscriber function only calls observer.error(e), an error
\* handler is present and calls nothing back, and subscribe has just returned.
ScenarioB(e) ==
    /\ source.kind = "custom"
    /\ source.script = <<[op |-> "error", arg |-> e]>>
    /\ nObs = 1
    /\ "error" \in handlers[1]
    /\ Count(trace[1], "reenter") = 0
    /\ envCalls = 0

\* C6 (Scenario B): subscribing then invokes the error handler exactly once,
\* with e, and the cleanup callback the subscriber function returned fires
\* exactly once.
C6_ScenarioB ==
    \A e \in ErrorCodes :
        ScenarioB(e) =>
            /\ Filter(trace[1], {"error"}) = <<Event("error", e)>>
            /\ Cleanups(1) = 1

\* C7 (P4, independent replays): every subscription to from(values) is
\* delivered the full sequence and one complete, and an unsubscribe() on the
\* handle of one subscription changes nothing of any other subscription: not
\* its Observer's flag, not what it was delivered, not its cleanup count.
C7_IndependentReplays ==
    [][source.kind = "from" =>
        /\ \A o \in 1..nObs' :
              HandlerEvents(trace'[o]) = Expected(handlers'[o], source.values)
        /\ \A o \in Subs : handleCalls'[o] # handleCalls[o] =>
              \A p \in Subs \ {o} :
                  /\ isUnsubscribed'[p] = isUnsubscribed[p]
                  /\ unsubscribeHolder'[p] = unsubscribeHolder[p]
                  /\ handlers'[p] = handlers[p]
                  /\ trace'[p] = trace[p]]_vars

\* Two subscriptions, both delivered both values; the first one's handle was
\* unsubscribed, the second one's was not and its cleanup never ran.
C7_Witness ==
    /\ source.kind = "from"
    /\ Len(source.values) = 2
    /\ nObs = 2
    /\ handlers[1] = HandlerNames /\ handlers[2] = HandlerNames
    /\ handleCalls[1] = 1 /\ handleCalls[2] = 0
    /\ Cleanups(1) = 1 /\ Cleanups(2) = 0
    /\ Count(trace[1], "next") = 2 /\ Count(trace[2], "next") = 2

ScriptSignals(ops) == \E i \in 1..Len(source.script) : source.script[i].op \in ops

\* C8 (P5, optional handlers): a handler that is absent is never invoked
\* (invoking it is what would fail), whatever is called on the Observer, and
\* an error() or complete() on an Observer that lacks the handler still moves
\* it to Unsubscribed.
C8_OptionalHandlers ==
    \A o \in Created :
        /\ \A i \in 1..Len(trace[o]) :
              trace[o][i].k \in HandlerNames => trace[o][i].k \in handlers[o]
        /\ ScriptSignals({"error", "complete"}) => isUnsubscribed[o]

\* An Observer with only a next handler whose subscriber function calls
\* error(): no handler ran and the Observer is Unsubscribed.
C8_Witness ==
    /\ source.kind = "custom"
    /\ source.script = <<[op |-> "error", arg |-> 500]>>
    /\ nObs = 1
    /\ handlers[1] = {"next"}
    /\ isUnsubscribed[1]
    /\ trace[1] = <<Event("unsub", 0), Event("attached", 0)>>

\* C9: when subscribe() returns on from(values), every value has been pushed
\* through next and the Observer is already Unsubscribed: unsubscribe() ran,
\* and the values were delivered, before the handle was returned.
C9_TerminalOnReturn ==
    source.kind = "from" =>
        \A o \in Created :
            /\ isUnsubscribed[o]
            /\ Count(BeforeAttach(trace[o]), "unsub") = 1
            /\ "next" \in handlers[o] =>
                  Filter(BeforeAttach(trace[o]), {"next"})
                      = [i \in 1..Len(source.values) |-> Event("next", source.values[i])]

C9_Witness ==
    /\ source.kind = "from"
    /\ Len(source.values) = 2
    /\ nObs = 1
    /\ envCalls = 0
    /\ "next" \in handlers[1]
    /\ isUnsubscribed[1]
    /\ Count(trace[1], "next") = 2

\* The positions of the log where a next handler called unsubscribe() on its
\* Observer before returning
ReentrantUnsubscribes(tr) ==
    {i \in 1..(Len(tr) - 2) :
        tr[i].k = "next" /\ tr[i + 1].k = "reenter" /\ tr[i + 2].k = "unsub"}

\* C10 (re-entrant teardown): once a next handler has called unsubscribe() on
\* its Observer from inside the delivery of a value, no later value is
\* delivered to the next handler.
C10_ReentrantTeardown ==
    \A o \in Created : \A i \in ReentrantUnsubscribes(trace[o]) :
        \A j \in (i + 3)..Len(trace[o]) : trace[o][j].k # "next"

\* The subscriber function pushes two values; the handler of the first one
\* unsubscribed, and the second one was not delivered.
C10_Witness ==
    /\ source.kind = "custom"
    /\ source.script = <<[op |-> "next", arg |-> 1], [op |-> "next", arg |-> 1]>>
    /\ nObs = 1
    /\ "next" \in handlers[1]
    /\ BeforeAttach(trace[1]) = <<Event("next", 1), Event("reenter", 0), Event("unsub", 0)>>

\* C11 (Observer state machine): isUnsubscribed is false until unsubscribe()
\* has run on the Observer (called directly, or by error() or complete() on an
\* Active Observer) and true from then on: no step sets it back to false, and
\* next() leaves it as it is, whether the Observer is Active or Unsubscribed.
C11_StateMachine ==
    [][\A o \in Subs :
          /\ isUnsubscribed[o] => isUnsubscribed'[o]
          /\ isUnsubscribed'[o] <=> Count(trace'[o], "unsub") > 0
          /\ \A v \in Values :
                ObserverNext(Load(o, <<>>), v).u = isUnsubscribed[o]]_vars

\* An Active Observer stayed Active through a delivered next() made after
\* subscribe returned.
C11_Witness ==
    /\ source.kind = "custom"
    /\ source.script = <<>>
    /\ nObs = 1
    /\ envCalls = 1
    /\ trace[1] = <<Event("attached", 0), Event("next", 1)>>
    /\ ~isUnsubscribed[1]

\* C12 (calls on an Unsubscribed Observer): a next(), error() or complete()
\* made from outside on an Observer that is already Unsubscribed invokes no
\* handler and no cleanup callback and leaves the Observer as it was.
C12_SilentNoOp ==
    [][\A o \in Subs :
          (isUnsubscribed[o] /\ envCalls' # envCalls /\ handleCalls' = handleCalls) =>
              /\ trace'[o] = trace[o]
              /\ isUnsubscribed'[o] = isUnsubscribed[o]
              /\ unsubscribeHolder'[o] = unsubscribeHolder[o]
              /\ handlers'[o] = handlers[o]]_vars

\* The subscriber function completed; one signal was sent afterwards and the
\* log is what subscribe left.
C12_Witness ==
    /\ source.kind = "custom"
    /\ source.script = <<[op |-> "complete", arg |-> 0]>>
    /\ nObs = 1
    /\ handlers[1] = HandlerNames
    /\ envCalls = 1
    /\ handleCalls[1] = 0
    /\ trace[1] = <<Event("complete", 0), Event("unsub", 0), Event("attached", 0)>>

\* C13 (cancellation is immediate): unsubscribe() sets the flag before it
\* invokes the cleanup callback, so every cleanup invocation comes right after
\* the flag was set, and a next(), error() or complete() issued once
\* unsubscribe() has started, also from inside the cleanup callback, invokes
\* no handler.
C13_ImmediateCancellation ==
    \A o \in Created : \A i \in 1..Len(trace[o]) :
        /\ trace[o][i].k = "cleanup" => (i > 1 /\ trace[o][i - 1].k = "unsub")
        /\ trace[o][i].k \in {"unsub", "cleanup"} =>
              \A j \in (i + 1)..Len(trace[o]) : trace[o][j].k \notin HandlerNames

\* The handle was unsubscribed on an Active Observer with all three handlers,
\* and the cleanup callback signalled the Observer: nothing was invoked.
C13_Witness ==
    /\ source.kind = "custom"
    /\ source.script = <<>>
    /\ nObs = 1
    /\ handlers[1] = HandlerNames
    /\ handleCalls[1] = 1
    /\ trace[1] = <<Event("attached", 0), Event("unsub", 0), Event("cleanup", 0),
                    Event("reenter", 0)>>

\* C14 (order inside a terminal signal): an error or complete handler is
\* invoked while the Observer is still Active, before unsubscribe() has run
\* and before any cleanup invocation; the Observer becomes Unsubscribed only
\* afterwards (right afterwards when the handler calls nothing back), and the
\* cleanup callback, if stored, runs after that.
C14_HandlerBeforeTeardown ==
    \A o \in Created : \A i \in 1..Len(trace[o]) :
        trace[o][i].k \in {"error", "complete"} =>
            /\ \A j \in 1..(i - 1) : trace[o][j].k \notin {"unsub", "cleanup"}
            /\ i < Len(trace[o])
            /\ trace[o][i + 1].k \in {"unsub", "reenter"}
            /\ \E j \in (i + 1)..Len(trace[o]) : trace[o][j].k = "unsub"

\* error() on an Active Observer whose cleanup callback is stored: handler,
\* then the flag, then the cleanup callback.
C14_Witness ==
    /\ source.kind = "custom"
    /\ nObs = 1
    /\ trace[1] = <<Event("attached", 0), Event("error", 500), Event("unsub", 0),
                    Event("cleanup", 0)>>

\* C15 (no cleanup during the subscriber function): while the subscriber
\* function of a subscription runs inside subscribe() its cleanup callback is
\* never invoked; the callback is stored only when the function has returned,
\* so an error(), complete() or unsubscribe() the function issues marks the
\* Observer Unsubscribed and runs no cleanup.
C15_NoCleanupDuringSubscriber ==
    \A o \in Created :
        /\ Count(BeforeAttach(trace[o]), "cleanup") = 0
        /\ Count(BeforeAttach(trace[o]), "unsub") > 0 => isUnsubscribed[o]
        /\ unsubscribeHolder[o]

\* from(<<1>>) has just been subscribed: complete() ran unsubscribe() inside
\* the subscriber function, and no cleanup ran.
C15_Witness ==
    /\ source.kind = "from"
    /\ nObs = 1
    /\ envCalls = 0
    /\ isUnsubscribed[1]
    /\ trace[1] = <<Event("next", 1), Event("complete", 0), Event("unsub", 0),
                    Event("attached", 0)>>

\* C16 (cleanup count of a from-built Observable): after k calls of the
\* returned handle's unsubscribe() the cleanup callback of that subscription
\* has been invoked exactly k times.
C16_CleanupPerHandleCall ==
    source.kind = "from" => \A o \in Created : Cleanups(o) = handleCalls[o]

\* The handle of a from-built subscription was unsubscribed twice.
C16_Witness ==
    /\ source.kind = "from"
    /\ nObs >= 1
    /\ handleCalls[1] = 2
    /\ Cleanups(1) = 2

\* C17 (a terminal signal is delivered at most once): over all calls made on
\* an Observer, the calls its own handlers make included, the error handler
\* and the complete handler are invoked at most once in total.
C17_TerminalAtMostOnce ==
    \A o \in Created : Count(trace[o], "error") + Count(trace[o], "complete") <= 1

=============================================================================
